---- MODULE Spec2Model ----
(***************************************************************************)
(* Article-to-prediction pipeline of analisis-de-noticias:                 *)
(*   core/orchestrator.py      run_data_collection, run_sentiment_analysis *)
(*   core/supabase_handler.py  SupabaseHandler (blob storage + table)      *)
(*   core/prediction_model.py  load_price_data, load_sentiment_data,       *)
(*                             create_features_and_target                  *)
(* Nullable values (Python None, SQL NULL, pandas NaN) are sequences of    *)
(* length at most one: << >> is the null, <<v>> holds v.  Sentiment scores *)
(* are counted in tenths (10 is 1.0).                                      *)
(***************************************************************************)
EXTENDS Integers, Sequences, FiniteSets, TLC

VARIABLES
    table,        \* news_articles: sequence of rows, a row's id is its index
    blobs,        \* storage bucket: the set of file paths that exist
    feed,         \* the entries feedparser finds at rss_url
    coll,         \* coll[r]: locals of the r-th call of run_data_collection
                  \* (before: the table when the call started, for the claims)
    ana,          \* ana[r]: locals of the r-th call of run_sentiment_analysis
    prices_df,    \* argument of create_features_and_target
    sentiment_df, \* argument of create_features_and_target
    df_final,     \* << >> before the call, <<result>> after it
    orch,         \* locals of orchestrator.py run as a script
    asm           \* locals of prediction_model.py run as a script

vars == <<table, blobs, feed, coll, ana, prices_df, sentiment_df, df_final, orch, asm>>

\* ------------------------------------------------------------------ bounds
MaxUrls == 2
MaxFeedLen == 2
MaxRuns == 2
MaxRows == 2
MaxBatch == 2
MaxCalls == 3
MaxDays == 3
MaxOverlapRows == 1
MaxAnalysedRows == 1

Null == << >>
Some(v) == <<v>>
IsNull(x) == x = Null
Val(x) == x[1]

Runs == 1..MaxRuns
Urls == 1..MaxUrls
Titles == {"t1", "t2"}

OrchIdle ==
    [pc |-> "idle", feeds_list |-> 0, names_list |-> << >>, k |-> 1,
     total_articulos_insertados |-> 0]
AsmIdle == [pc |-> "idle", data |-> << >>, error |-> ""]

\* ------------------------------------------------------- Article Store
\* datetime.isoformat(): the timestamp as text
isoformat(dt) == [iso |-> dt]

\* hashlib.sha256(url.encode()).hexdigest(): one digest per url
sha256(url) == <<"sha256", url>>

file_path(article_id) == <<article_id, ".txt">>

\* upload_article_text without the branch for "Duplicate" / "409"
upload_article_text_409_fails(article_id, bl) ==
    LET p == file_path(article_id)
    IN  (IF p \in bl
           THEN {[ret |-> Null, error |-> "409 Duplicate", blobs |-> bl]}
           ELSE {[ret |-> Some(p), error |-> "", blobs |-> bl \cup {p}]})
        \cup {[ret |-> Null, error |-> "other", blobs |-> bl]}

\* upload_article_text returning the path after any error
upload_article_text_path_on_error(article_id, bl) ==
    LET p == file_path(article_id)
    IN  (IF p \in bl
           THEN {[ret |-> Some(p), error |-> "409 Duplicate", blobs |-> bl]}
           ELSE {[ret |-> Some(p), error |-> "", blobs |-> bl \cup {p}]})
        \cup {[ret |-> Some(p), error |-> "other", blobs |-> bl]}

\* The outcomes of one call: the value returned, the error
\* caught and the bucket afterwards.
\* storage.upload raises "409 Duplicate" when the path exists (no upsert
\* option is passed) and may raise any other error at any time.
upload_article_text(article_id, bl) ==
    LET p == file_path(article_id)
    IN  (IF p \in bl
           THEN {[ret |-> Some(p), error |-> "409 Duplicate", blobs |-> bl]}
           ELSE {[ret |-> Some(p), error |-> "", blobs |-> bl \cup {p}]})
        \cup {[ret |-> Null, error |-> "other", blobs |-> bl]}

\* The columns of news_articles that the scorer's record fills
AnalysisColumns ==
    {"stock_ticker", "sentiment_score", "relevance_score",
     "topic_category", "reasoning", "secondary_tickers"}

\* The row the table stores for an insert of `metadata`: the analysis
\* columns are not in the insert and take their NULL default.
NewRow(metadata) ==
    [title |-> metadata.title, url |-> metadata.url,
     published_at |-> metadata.published_at,
     storage_path |-> metadata.storage_path,
     stock_ticker |-> Null, sentiment_score |-> Null,
     relevance_score |-> Null, topic_category |-> Null,
     reasoning |-> Null, secondary_tickers |-> Null]

UrlExists(tbl, url) == \E k \in 1..Len(tbl) : tbl[k].url = url

\* table(...).insert(metadata).execute() under the unique constraint on url:
\* a duplicate url raises, anything else inserts or raises another error.
TableInsert(tbl, metadata) ==
    IF UrlExists(tbl, metadata.url)
      THEN {[data |-> Null, error |-> "duplicate key", table |-> tbl]}
      ELSE {[data |-> Some(Len(tbl) + 1), error |-> "", table |-> Append(tbl, NewRow(metadata))],
            [data |-> Null, error |-> "other", table |-> tbl]}

\* insert_article_metadata written with .upsert(metadata): a known url has
\* its row overwritten and its id returned.
insert_article_metadata_upsert(metadata, storage_path, tbl) ==
    LET md == [metadata EXCEPT !.storage_path = storage_path]
    IN  IF UrlExists(tbl, md.url)
          THEN LET k == CHOOSE k \in 1..Len(tbl) : tbl[k].url = md.url
               IN  {[ret |-> Some(k),
                     table |-> [tbl EXCEPT ![k] = [@ EXCEPT !.title = md.title]]]}
          ELSE {[ret |-> o.data, table |-> o.table] : o \in TableInsert(tbl, md)}

\* insert_article_metadata written as delete-and-insert: a known url has its
\* row replaced by the new one and its id returned.
insert_article_metadata_replace(metadata, storage_path, tbl) ==
    LET md == [metadata EXCEPT !.storage_path = storage_path]
    IN  IF UrlExists(tbl, md.url)
          THEN LET k == CHOOSE k \in 1..Len(tbl) : tbl[k].url = md.url
               IN  {[ret |-> Some(k), table |-> [tbl EXCEPT ![k] = NewRow(md)]]}
          ELSE {[ret |-> o.data, table |-> o.table] : o \in TableInsert(tbl, md)}

insert_article_metadata(metadata, storage_path, tbl) ==
    LET md == [metadata EXCEPT !.storage_path = storage_path]
    IN  {[ret |-> o.data, table |-> o.table] : o \in TableInsert(tbl, md)}

\* An entry as fetch_rss_links returns it; published_at is <<day, hour>> UTC.
FeedsOfLen(n) == [1..n -> [url : Urls, title : Titles, published_at : {<<1, 9>>}]]
Feeds == UNION {FeedsOfLen(n) : n \in 0..MaxFeedLen}

\* Where titles play no part: the feeds whose entries have one title
FeedsOneTitle == {f \in Feeds : \A k \in 1..Len(f) : f[k].title = "t1"}

\* ---------------------------------------------------------- NewsAgent
SELENIUM_SOURCES == {"Bloomberg", "ABC", "ElEconomista", "ElMundoFinanciero"}

\* The source_name of an agent: one that is fetched with requests, one that
\* is fetched with the headless browser
SourceNames == {"Expansion", "Bloomberg"}

MinTextLen == 250

\* What fetching and parsing the page of an article gives: an exception, or
\* the text _extract_text_from_html finds, here its length ("" when the
\* page has no body)
Pages ==
    {[raised |-> TRUE, len |-> 0]} \cup
    {[raised |-> FALSE, len |-> n] : n \in {0, MinTextLen - 1, MinTextLen}}

_get_content_with_selenium(page) ==
    IF page.raised THEN Null ELSE Some(page.len)

get_article_content(source_name, page) ==
    IF source_name \in SELENIUM_SOURCES
      THEN _get_content_with_selenium(page)
      ELSE IF page.raised THEN Null
           ELSE IF page.len < MinTextLen THEN Null
           ELSE Some(page.len)

\* ------------------------------------------------- run_data_collection
\* before and unstored record, for the claims, the table when the call
\* started and the urls whose text the call obtained and that had no row when
\* it went on to the next entry, each with the error the store call gave.
CollIdle ==
    [pc |-> "idle", source_name |-> "", links |-> << >>, i |-> 1,
     total_inserted |-> 0, text_content |-> Null,
     storage_path |-> Null, uuid |-> Null, ret |-> Null, before |-> << >>,
     unstored |-> {}]

\* Calls are made one after the other: call r starts when call r-1 returned.
MayStartColl(r) ==
    /\ coll[r].pc = "idle"
    /\ r > 1 => coll[r - 1].pc \in {"done", "killed"}

\* fetch_rss_links: the entries of the feed, or [] when reading it raised
fetch_rss_links == {feed, << >>}

\* lines 32-33 for an agent of the source `name`
BeginCollection(r, name) ==
    \E links \in fetch_rss_links :
        coll' = [coll EXCEPT ![r] = [CollIdle EXCEPT !.pc = "fetch",
                                        !.source_name = name,
                                        !.links = links, !.before = table]]

\* What is left of a call that is over once the caller has moved on: how
\* it ended, what it read and what it returned.
Ended(c) ==
    IF c.pc = "killed" THEN c
    ELSE [CollIdle EXCEPT !.pc = c.pc, !.source_name = c.source_name,
                          !.links = c.links, !.ret = c.ret]

\* A call by itself; the feed is that of one source, whatever the call.
CollectStart(r) ==
    /\ MayStartColl(r)
    /\ \E name \in SourceNames, links \in fetch_rss_links :
         /\ r > 1 => name = coll[r - 1].source_name
         /\ coll' = [q \in Runs |->
                       IF q < r THEN Ended(coll[q])
                       ELSE IF q = r
                         THEN [CollIdle EXCEPT !.pc = "fetch",
                                               !.source_name = name,
                                               !.links = links, !.before = table]
                       ELSE coll[q]]
    /\ UNCHANGED <<table, blobs, feed, ana, prices_df, sentiment_df, df_final, orch, asm>>

\* lines 35-40: get_article_content gives the text or None
CollectFetch(r) ==
    /\ coll[r].pc = "fetch"
    /\ coll[r].i <= Len(coll[r].links)
    /\ \E page \in Pages :
         LET text_content == get_article_content(coll[r].source_name, page)
         IN  coll' = [coll EXCEPT ![r] =
                        IF IsNull(text_content)
                          THEN [@ EXCEPT !.i = @ + 1]
                          ELSE [@ EXCEPT !.pc = "upload",
                                         !.text_content = text_content]]
    /\ UNCHANGED <<table, blobs, feed, ana, prices_df, sentiment_df, df_final, orch, asm>>

\* lines 42-45
CollectUpload(r) ==
    /\ coll[r].pc = "upload"
    /\ LET link_data == coll[r].links[coll[r].i]
           file_id == sha256(link_data.url)
       IN  \E o \in upload_article_text(file_id, blobs) :
             /\ blobs' = o.blobs
             /\ coll' = [coll EXCEPT ![r] =
                          IF IsNull(o.ret)
                            THEN [@ EXCEPT !.pc = "fetch", !.i = @ + 1,
                                           !.text_content = Null,
                                           !.unstored =
                                               IF UrlExists(table, link_data.url)
                                                 THEN @
                                                 ELSE @ \cup {[url |-> link_data.url,
                                                                error |-> o.error]}]
                            ELSE [@ EXCEPT !.pc = "insert", !.storage_path = o.ret]]
    /\ UNCHANGED <<table, feed, ana, prices_df, sentiment_df, df_final, orch, asm>>

\* lines 46-55
CollectInsert(r) ==
    /\ coll[r].pc = "insert"
    /\ LET link_data == coll[r].links[coll[r].i]
           metadata == [title |-> link_data.title, url |-> link_data.url,
                        published_at |-> isoformat(link_data.published_at),
                        storage_path |-> Null]
       IN  \E o \in insert_article_metadata(metadata, Val(coll[r].storage_path), table) :
             /\ table' = o.table
             /\ coll' = [coll EXCEPT ![r] =
                          [@ EXCEPT !.pc = "fetch", !.i = @ + 1,
                                    !.text_content = Null,
                                    !.unstored =
                                        IF UrlExists(o.table, link_data.url)
                                          THEN @
                                          ELSE @ \cup {[url |-> link_data.url,
                                                         error |-> "other"]},
                                    !.uuid = o.ret,
                                    !.total_inserted =
                                        IF IsNull(o.ret) THEN @ ELSE @ + 1]]
    /\ UNCHANGED <<blobs, feed, ana, prices_df, sentiment_df, df_final, orch, asm>>

\* line 57
CollectReturn(r) ==
    /\ coll[r].pc = "fetch"
    /\ coll[r].i > Len(coll[r].links)
    /\ coll' = [coll EXCEPT ![r] = [@ EXCEPT !.pc = "done",
                                            !.ret = Some(coll[r].total_inserted)]]
    /\ UNCHANGED <<table, blobs, feed, ana, prices_df, sentiment_df, df_final, orch, asm>>

\* ---------------------------------------------- Article Store, phase 2
\* All orderings of the sets of n elements of S
SeqsOfLen(S, n) ==
    {q \in [1..n -> S] : \A j, k \in 1..n : q[j] = q[k] => j = k}

Min(x, y) == IF x < y THEN x ELSE y

NullIds(tbl) == {k \in 1..Len(tbl) : IsNull(tbl[k].sentiment_score)}

\* The select without .is_("sentiment_score", "null")
get_articles_needing_analysis_unfiltered(tbl, limit) ==
    {[k \in 1..Len(q) |-> [id |-> q[k], storage_path |-> tbl[q[k]].storage_path]] :
        q \in SeqsOfLen(1..Len(tbl), Min(limit, Len(tbl)))}
    \cup {<< >>}

\* select id, storage_path where sentiment_score is null limit `limit`: any
\* `limit` of the matching rows in any order (no ORDER BY), or [] when the
\* query raised.
get_articles_needing_analysis(tbl, limit) ==
    {[k \in 1..Len(q) |-> [id |-> q[k], storage_path |-> tbl[q[k]].storage_path]] :
        q \in SeqsOfLen(NullIds(tbl), Min(limit, Cardinality(NullIds(tbl))))}
    \cup {<< >>}

\* the text (its content is not modelled) or None
download_article_text(storage_path, bl) ==
    (IF storage_path \in bl THEN {Some("text")} ELSE {}) \cup {Null}

\* update(analysis_data).eq("id", article_id): the columns named by the dict
\* are overwritten in the row with that id; an error (also for the empty
\* dict, which has nothing to set) is logged and leaves the table as it was.
update_article_with_analysis(article_id, analysis_data, tbl) ==
    {tbl} \cup
    (IF article_id \in 1..Len(tbl) /\ DOMAIN analysis_data # {}
       THEN {[tbl EXCEPT ![article_id] =
                [c \in DOMAIN @ |-> IF c \in DOMAIN analysis_data
                                      THEN analysis_data[c] ELSE @[c]]]}
       ELSE {})

\* --------------------------------------------------- Sentiment Scorer
\* What a scorer puts in the dict: a record of the schema, records whose
\* numbers are off the documented ranges (the schema has no constraint),
\* a record without sentiment_score, the error marker of the except branch.
ScorerDicts ==
    {[stock_ticker |-> Some("BBVA"), sentiment_score |-> Some(5), relevance_score |-> Some(2)],
     [stock_ticker |-> Some("BBVA"), sentiment_score |-> Some(15), relevance_score |-> Some(4)],
     [stock_ticker |-> Some("BBVA"), relevance_score |-> Some(1)],
     [error |-> Some("quota"), stock_ticker |-> Some("ERROR")]}

JsonValues ==
    {[t |-> "object", v |-> d] : d \in ScorerDicts}
    \cup {[t |-> "null", v |-> [lit |-> "null"]],
          [t |-> "number", v |-> [lit |-> "7"]],
          [t |-> "array", v |-> [lit |-> "[]"]]}

\* A str is the JSON encoding of a value or some other text
json_dumps(value) == [json |-> value]

NoJsonText == [chars |-> "Lo siento"]

\* json.loads: the value, or JSONDecodeError
json_loads(text) ==
    IF "json" \in DOMAIN text
      THEN [ok |-> TRUE, value |-> text.json]
      ELSE [ok |-> FALSE, value |-> [t |-> "null", v |-> [lit |-> "null"]]]

\* analyze_article_for_quant: a str (Gemini's response.text: JSON of any
\* value, or text that is no JSON), a dict (Claude), or neither (None).
ScorerOutputs ==
    {[type |-> "str", v |-> json_dumps(j)] : j \in JsonValues}
    \cup {[type |-> "str", v |-> NoJsonText]}
    \cup {[type |-> "dict", v |-> d] : d \in ScorerDicts}
    \cup {[type |-> "NoneType", v |-> [none |-> TRUE]]}

\* The loop body without the test of "error" in analysis_data
Interpret_error_unchecked(analysis_output) ==
    IF analysis_output.type = "str"
      THEN LET p == json_loads(analysis_output.v)
           IN  IF ~p.ok THEN [do |-> "continue", why |-> "JSONDecodeError", data |-> << >>]
               ELSE IF p.value.t # "object" THEN [do |-> "raise", why |-> "", data |-> << >>]
               ELSE [do |-> "update", why |-> "", data |-> p.value.v]
    ELSE IF analysis_output.type = "dict"
      THEN [do |-> "update", why |-> "", data |-> analysis_output.v]
    ELSE [do |-> "update", why |-> "", data |-> << >>]

\* orchestrator.py lines 99-113: what the loop body does with the output.
\* A decoded value that is no object makes `"error" in analysis_data` or
\* analysis_data.get raise TypeError / AttributeError.
Interpret(analysis_output) ==
    IF analysis_output.type = "str"
      THEN LET p == json_loads(analysis_output.v)
           IN  IF ~p.ok THEN [do |-> "continue", why |-> "JSONDecodeError", data |-> << >>]
               ELSE IF p.value.t # "object" THEN [do |-> "raise", why |-> "", data |-> << >>]
               ELSE IF "error" \in DOMAIN p.value.v
                      THEN [do |-> "continue", why |-> "error", data |-> << >>]
                      ELSE [do |-> "update", why |-> "", data |-> p.value.v]
    ELSE IF analysis_output.type = "dict"
      THEN IF "error" \in DOMAIN analysis_output.v
             THEN [do |-> "continue", why |-> "error", data |-> << >>]
             ELSE [do |-> "update", why |-> "", data |-> analysis_output.v]
    ELSE [do |-> "update", why |-> "", data |-> << >>]

\* ---------------------------------------------- run_sentiment_analysis
\* backlog, calls, fetched, ok_ids and malformed record, for the claims, the
\* number of unscored rows at the start, the number of selects, how often
\* each row was in a batch, the rows with an accepted scorer output and
\* whether some scorer output could not be decoded.
AnaIdle ==
    [pc |-> "idle", batch_size |-> 0, articles_to_process |-> << >>, j |-> 1,
     total |-> 0, calls |-> 0, ret |-> Null,
     backlog |-> 0, fetched |-> << >>, ok_ids |-> {}, malformed |-> FALSE]

\* A call that returned before the next one started: its locals are gone
AnaGone == [AnaIdle EXCEPT !.pc = "gone"]

Returned(x) == x.pc \in {"done", "raised"}

Forget(r) == [q \in Runs |-> IF q < r THEN AnaGone ELSE ana[q]]

MayStartAna(r) ==
    /\ ana[r].pc = "idle"
    /\ r > 1 => Returned(ana[r - 1])

AnalysisStart(r) ==
    /\ MayStartAna(r)
    /\ \E batch_size \in 1..MaxBatch :
         ana' = [Forget(r) EXCEPT ![r] =
                   [AnaIdle EXCEPT !.pc = "select", !.batch_size = batch_size,
                                   !.backlog = Cardinality(NullIds(table)),
                                   !.fetched = [k \in 1..Len(table) |-> 0]]]
    /\ UNCHANGED <<table, blobs, feed, coll, prices_df, sentiment_df, df_final, orch, asm>>

Ids(batch) == {batch[k].id : k \in 1..Len(batch)}

\* lines 71-82; falling out of the loop the function ends without a return
\* statement, so the caller gets None
AnalysisSelect(r) ==
    /\ ana[r].pc = "select"
    /\ ana[r].calls < MaxCalls
    /\ \E batch \in get_articles_needing_analysis(table, ana[r].batch_size) :
         ana' = [ana EXCEPT ![r] =
                   [@ EXCEPT !.calls = @ + 1,
                             !.articles_to_process = batch,
                             !.j = 1,
                             !.pc = IF batch = << >> THEN "done" ELSE "article",
                             !.fetched = [k \in DOMAIN @ |->
                                            IF k \in Ids(batch) THEN @[k] + 1 ELSE @[k]]]]
    /\ UNCHANGED <<table, blobs, feed, coll, prices_df, sentiment_df, df_final, orch, asm>>

\* where the for loop is after the article at j
AfterArticle(x) ==
    IF x.j = Len(x.articles_to_process)
      THEN [x EXCEPT !.pc = "select"]
      ELSE [x EXCEPT !.j = @ + 1]

\* lines 84-116, one iteration of the for loop
AnalysisArticle(r) ==
    /\ ana[r].pc = "article"
    /\ LET article == ana[r].articles_to_process[ana[r].j]
           article_id == article.id
       IN  \E text_content \in download_article_text(article.storage_path, blobs) :
             IF IsNull(text_content)
               THEN /\ ana' = [ana EXCEPT ![r] = AfterArticle(@)]
                    /\ table' = table
               ELSE \E res \in {Interpret(analysis_output) :
                                    analysis_output \in ScorerOutputs} :
                          CASE res.do = "continue" ->
                                 /\ ana' = [ana EXCEPT ![r] = AfterArticle(
                                              [@ EXCEPT !.malformed =
                                                 @ \/ res.why = "JSONDecodeError"])]
                                 /\ table' = table
                            [] res.do = "raise" ->
                                 /\ ana' = [ana EXCEPT ![r] = [@ EXCEPT !.pc = "raised"]]
                                 /\ table' = table
                            [] res.do = "update" ->
                                 /\ table' \in update_article_with_analysis(
                                                  article_id, res.data, table)
                                 /\ ana' = [ana EXCEPT ![r] = AfterArticle(
                                              [@ EXCEPT !.total = @ + 1,
                                                 !.ok_ids = @ \cup {article_id}])]
    /\ UNCHANGED <<blobs, feed, coll, prices_df, sentiment_df, df_final, orch, asm>>

\* The rows and blobs collection leaves for the urls 1..n, none scored yet
StoredRow(url) ==
    NewRow([title |-> "t1", url |-> url,
            published_at |-> isoformat(<<1, 9>>),
            storage_path |-> file_path(sha256(url))])

InitAnalysis ==
    /\ \E n \in 0..MaxRows :
         /\ table = [k \in 1..n |-> StoredRow(k)]
         /\ blobs = {file_path(sha256(k)) : k \in 1..n}
    /\ feed = << >>
    /\ coll = [r \in Runs |-> CollIdle]
    /\ ana = [r \in Runs |-> AnaIdle]
    /\ prices_df = << >>
    /\ sentiment_df = << >>
    /\ df_final = Null
    /\ orch = OrchIdle
    /\ asm = AsmIdle

NextAnalysis ==
    \E r \in Runs :
        \/ AnalysisStart(r)
        \/ AnalysisSelect(r)
        \/ AnalysisArticle(r)

SpecAnalysis == InitAnalysis /\ [][NextAnalysis]_vars

\* Calls that overlap (two schedulers, two machines): a call may start
\* while another is under way.
AnalysisStartOverlapping(r) ==
    /\ ana[r].pc = "idle"
    /\ \E batch_size \in 1..MaxBatch :
         ana' = [ana EXCEPT ![r] =
                   [AnaIdle EXCEPT !.pc = "select", !.batch_size = batch_size,
                                   !.backlog = Cardinality(NullIds(table)),
                                   !.fetched = [k \in 1..Len(table) |-> 0]]]
    /\ UNCHANGED <<table, blobs, feed, coll, prices_df, sentiment_df, df_final, orch, asm>>

NextAnalysisOverlap ==
    \E r \in Runs :
        \/ AnalysisStartOverlapping(r)
        \/ AnalysisSelect(r)
        \/ AnalysisArticle(r)

\* The overlapping calls find the rows of up to MaxOverlapRows articles
InitAnalysisOverlap ==
    /\ \E n \in 0..MaxOverlapRows :
         /\ table = [k \in 1..n |-> StoredRow(k)]
         /\ blobs = {file_path(sha256(k)) : k \in 1..n}
    /\ feed = << >>
    /\ coll = [r \in Runs |-> CollIdle]
    /\ ana = [r \in Runs |-> AnaIdle]
    /\ prices_df = << >>
    /\ sentiment_df = << >>
    /\ df_final = Null
    /\ orch = OrchIdle
    /\ asm = AsmIdle

SpecAnalysisOverlap == InitAnalysisOverlap /\ [][NextAnalysisOverlap]_vars

\* ------------------------------------------------------ analysis claims
Running(x) == x.pc \in {"select", "article", "done", "raised"}

CeilDiv(n, b) == (n + b - 1) \div b

\* C1 as stated: a run over a backlog of N unscored rows with batch size B
\* calls get_articles_needing_analysis at most ceil(N/B)+1 times.
C1_SelectsBounded ==
    \A r \in Runs :
        Running(ana[r]) =>
            ana[r].calls <= CeilDiv(ana[r].backlog, ana[r].batch_size) + 1

\* C4: every row of a fetched batch that the run has still to process has a
\* null sentiment_score: a scored row is never fetched, given to the scorer
\* or updated by a later run.
C4_ScoredRowsNotInBatch ==
    \A r \in Runs :
        ana[r].pc = "article" =>
            \A k \in ana[r].j..Len(ana[r].articles_to_process) :
                IsNull(table[ana[r].articles_to_process[k].id].sentiment_score)

\* A second run asked for two rows and got only the unscored one of two.
C4_Witness ==
    /\ ana[2].pc = "article"
    /\ ana[2].batch_size = 2
    /\ Len(table) = 2
    /\ Cardinality(NullIds(table)) = 1
    /\ Ids(ana[2].articles_to_process) = NullIds(table)

\* C5 as stated: a run in which some scorer output was malformed returns
\* the number of articles whose scorer output was well-formed.
C5_ReturnsWellFormedCount ==
    \A r \in Runs :
        (ana[r].pc = "done" /\ ana[r].malformed /\ ana[r].ok_ids # {}) =>
            ana[r].ret = Some(Cardinality(ana[r].ok_ids))

\* C6 as stated: every stored sentiment_score lies in [-1.0, 1.0] and every
\* stored relevance_score in {1,2,3}.
C6_StoredScoresInRange ==
    \A k \in 1..Len(table) :
        /\ ~IsNull(table[k].sentiment_score) =>
               (Val(table[k].sentiment_score) >= -10 /\ Val(table[k].sentiment_score) <= 10)
        /\ ~IsNull(table[k].relevance_score) =>
               Val(table[k].relevance_score) \in {1, 2, 3}

\* C7 as stated: within one run a row is in at most one fetched batch.
C7_RowFetchedOnce ==
    \A r \in Runs :
        \A k \in DOMAIN ana[r].fetched : ana[r].fetched[k] <= 1

\* C16 as stated: whatever the scorer gives for an article, the run does
\* not raise: it never leaves the loop by an exception with articles of the
\* batch unprocessed.
C16_NoArticleFailureRaises ==
    \A r \in Runs : ana[r].pc # "raised"

\* The scorer outputs of C20: a str that is no JSON, a str or a dict whose
\* object has the key "error"
FailedOutputs ==
    {o \in ScorerOutputs :
        \/ o.type = "str" /\ ~json_loads(o.v).ok
        \/ /\ o.type = "str" /\ json_loads(o.v).ok
           /\ json_loads(o.v).value.t = "object"
           /\ "error" \in DOMAIN json_loads(o.v).value.v
        \/ o.type = "dict" /\ "error" \in DOMAIN o.v}

\* C20: a str that is no JSON and a result with the key "error" make the
\* loop body continue, as a download that gave None does; and an iteration
\* that continues (it neither counts nor raises) leaves the table as it
\* was, the article's sentiment_score null, the counter as it was, and goes
\* on with the next article of the batch (a new select after the last).
C20_FailedArticleLeftInBacklog ==
    /\ [](\A o \in FailedOutputs : Interpret(o).do = "continue")
    /\ [][\A r \in Runs :
            ( /\ ana[r].pc = "article"
              /\ ana'[r] # ana[r]
              /\ ana'[r].pc # "raised"
              /\ ana'[r].total = ana[r].total ) =>
                /\ table' = table
                /\ IsNull(table'[ana[r].articles_to_process[ana[r].j].id].sentiment_score)
                /\ ana'[r].ok_ids = ana[r].ok_ids
                /\ IF ana[r].j < Len(ana[r].articles_to_process)
                     THEN /\ ana'[r].pc = "article"
                          /\ ana'[r].j = ana[r].j + 1
                          /\ ana'[r].articles_to_process = ana[r].articles_to_process
                     ELSE ana'[r].pc = "select"]_vars

\* The scorer's text for the first article of a batch of two was no JSON:
\* the run is at the second article, nothing is counted, no row has changed.
C20_Witness ==
    /\ ana[1].pc = "article" /\ ana[1].j = 2
    /\ ana[1].calls = 1
    /\ ana[1].malformed
    /\ ana[1].total = 0
    /\ NullIds(table) = 1..Len(table)

\* C19 as stated, for a row that has its score: once a row's sentiment_score
\* is set, no later update_article_with_analysis changes the row, whichever
\* run makes it.
C19_ScoredRowWrittenOnce ==
    [][\A k \in 1..Len(table) :
          ~IsNull(table[k].sentiment_score) => table'[k] = table[k]]_vars

\* C21 as stated: whenever the loop body adds one to the success counter,
\* the row of the article it was at holds a non-null sentiment_score after
\* that step, whatever the store update did and whatever the scorer gave.
C21_CountedRowIsScored ==
    [][\A r \in Runs :
          ( /\ ana[r].pc = "article"
            /\ ana'[r].total = ana[r].total + 1 ) =>
              LET article_id == ana[r].articles_to_process[ana[r].j].id
              IN  /\ article_id \in 1..Len(table')
                  /\ ~IsNull(table'[article_id].sentiment_score)]_vars

InitCollect ==
    /\ table = << >>
    /\ blobs = {}
    /\ feed \in Feeds
    /\ coll = [r \in Runs |-> CollIdle]
    /\ ana = [r \in Runs |-> AnaIdle]
    /\ prices_df = << >>
    /\ sentiment_df = << >>
    /\ df_final = Null
    /\ orch = OrchIdle
    /\ asm = AsmIdle

NextCollect ==
    \E r \in Runs :
        \/ CollectStart(r)
        \/ CollectFetch(r)
        \/ CollectUpload(r)
        \/ CollectInsert(r)
        \/ CollectReturn(r)

SpecCollect == InitCollect /\ [][NextCollect]_vars

\* ---------------------------------------------------- collection claims
FeedStored(tbl) == \A k \in 1..Len(feed) : UrlExists(tbl, feed[k].url)

IsPrefix(s, t) == Len(s) <= Len(t) /\ SubSeq(t, 1, Len(s)) = s

BothReadFeed(r) == coll[r - 1].links = feed /\ coll[r].links = feed

\* Call r has returned and no later call has started: the table is as call
\* r left it.
JustDone(r) ==
    /\ coll[r].pc = "done"
    /\ r < MaxRuns => coll[r + 1].pc = "idle"

\* C2 as stated: a second run of run_data_collection over the same feed
\* returns 0 and leaves the table as the first run left it.
C2_SecondRunInsertsNothing ==
    \A r \in Runs :
        (r > 1 /\ JustDone(r) /\ BothReadFeed(r)) =>
            /\ coll[r].ret = Some(0)
            /\ table = coll[r].before

\* C2 (amended): a second run never inserts an article twice and keeps every
\* row of the first run; it returns the number of rows it added, all for
\* urls the first run stored no row for, which is 0 with the table unchanged
\* when the first run stored every article of the feed.
C2_SecondRunInsertsOnlyMissing ==
    \A r \in Runs :
        (r > 1 /\ JustDone(r) /\ BothReadFeed(r)) =>
            /\ IsPrefix(coll[r].before, table)
            /\ coll[r].ret = Some(Len(table) - Len(coll[r].before))
            /\ \A k \in (Len(coll[r].before) + 1)..Len(table) :
                   ~UrlExists(coll[r].before, table[k].url)
            /\ FeedStored(coll[r].before) =>
                   (coll[r].ret = Some(0) /\ table = coll[r].before)

\* The second run met a stored article: its upload gave the path (409), its
\* insert gave None, and it returned 0.
C2_Witness ==
    /\ JustDone(2)
    /\ Len(feed) = 2 /\ BothReadFeed(2)
    /\ FeedStored(coll[2].before)
    /\ coll[2].storage_path # Null /\ coll[2].uuid = Null
    /\ coll[2].ret = Some(0)
    /\ table = coll[2].before

\* C3: the table never holds two rows with one url, and a row once inserted
\* is never changed by collection, so the row of a url is the first inserted.
C3_OneRowPerUrl ==
    /\ [](\A j, k \in 1..Len(table) : table[j].url = table[k].url => j = k)
    /\ [][IsPrefix(table, table')]_vars

\* Two entries with one url and different titles were both offered to the
\* table: the first is stored, the insert of the second returned None.
C3_Witness ==
    /\ Len(feed) = 2 /\ coll[1].links = feed
    /\ feed[1].url = feed[2].url /\ feed[1].title # feed[2].title
    /\ coll[1].pc = "fetch" /\ coll[1].i = 3
    /\ coll[1].total_inserted = 1 /\ coll[1].uuid = Null
    /\ Len(table) = 1 /\ table[1].title = feed[1].title

\* C12 as stated: whatever the source, an article whose extraction gives
\* None, the empty text or a text under the minimum length is skipped: it
\* never gets to the blob upload or to the metadata insert.
C12_ShortTextSkipped ==
    \A r \in Runs :
        coll[r].pc \in {"upload", "insert"} =>
            /\ ~IsNull(coll[r].text_content)
            /\ Val(coll[r].text_content) >= MinTextLen

\* C13: the value run_data_collection returns is the number of rows the
\* table gained during the call, whatever was skipped on the way.
C13_ReturnsRowsAdded ==
    \A r \in Runs :
        JustDone(r) =>
            /\ IsPrefix(coll[r].before, table)
            /\ coll[r].ret = Some(Len(table) - Len(coll[r].before))

\* A run over two entries returned 1 with one row added: the other entry
\* was skipped (no text, no blob, known url or failed insert).
C13_Witness ==
    /\ JustDone(1)
    /\ Len(coll[1].links) = 2
    /\ coll[1].ret = Some(1)
    /\ Len(table) = 1

\* C23: every row's storage_path is the path made from the sha256 of the
\* row's url and a blob exists under it; a run gets to the insert of an
\* article only with that path in hand and the blob in the bucket (written
\* by this upload or found there), so an upload that failed otherwise
\* leads to no row.
C23_RowHasBlob ==
    /\ \A k \in 1..Len(table) :
          /\ table[k].storage_path = file_path(sha256(table[k].url))
          /\ table[k].storage_path \in blobs
    /\ \A r \in Runs :
          coll[r].pc = "insert" =>
              LET p == file_path(sha256(coll[r].links[coll[r].i].url))
              IN  coll[r].storage_path = Some(p) /\ p \in blobs

\* A run over two articles has returned: the upload of one failed with an
\* error that is no duplicate, it has neither blob nor row; the other has
\* both.
C23_Witness ==
    /\ JustDone(1)
    /\ Len(coll[1].links) = 2
    /\ Len(table) = 1
    /\ \E u \in Urls :
          /\ coll[1].unstored = {[url |-> u, error |-> "other"]}
          /\ file_path(sha256(u)) \notin blobs
          /\ ~UrlExists(table, u)
    /\ table[1].storage_path \in blobs

\* ------------------------------------------------ killed collection
\* The process is killed while a call is under way, between two store
\* calls: the call stops where it is and never returns.  Of its locals the
\* record keeps what it had read and, when it was killed between the upload
\* and the insert of an article, the path of the blob that has no row yet.
\* One kill per behaviour.
CollectKill(r) ==
    /\ coll[r].pc \in {"fetch", "upload", "insert"}
    /\ \A q \in Runs : coll[q].pc # "killed"
    /\ coll' = [coll EXCEPT ![r] =
                  [CollIdle EXCEPT !.pc = "killed",
                                   !.source_name = coll[r].source_name,
                                   !.links = coll[r].links,
                                   !.storage_path =
                                       IF coll[r].pc = "insert"
                                         THEN coll[r].storage_path ELSE Null]]
    /\ UNCHANGED <<table, blobs, feed, ana, prices_df, sentiment_df, df_final, orch, asm>>

InitCollectKill ==
    /\ table = << >>
    /\ blobs = {}
    /\ feed \in FeedsOneTitle
    /\ coll = [r \in Runs |-> CollIdle]
    /\ ana = [r \in Runs |-> AnaIdle]
    /\ prices_df = << >>
    /\ sentiment_df = << >>
    /\ df_final = Null
    /\ orch = OrchIdle
    /\ asm = AsmIdle

NextCollectKill ==
    \E r \in Runs :
        \/ CollectStart(r)
        \/ CollectFetch(r)
        \/ CollectUpload(r)
        \/ CollectInsert(r)
        \/ CollectReturn(r)
        \/ CollectKill(r)

SpecCollectKill == InitCollectKill /\ [][NextCollectKill]_vars

\* Call r - 1 was killed and call r, which read the feed, has returned
RerunAfterKill(r) ==
    /\ r > 1
    /\ coll[r - 1].pc = "killed"
    /\ JustDone(r)
    /\ coll[r].links = feed

OneRow(url) == Cardinality({k \in 1..Len(table) : table[k].url = url}) = 1

\* C17 as stated: after a killed run, a run that goes through the feed ends
\* with exactly one row for every article whose text it could fetch, those
\* that had no row when the run went past them included.
C17_RerunStoresEveryFetchable ==
    \A r \in Runs :
        RerunAfterKill(r) => \A a \in coll[r].unstored : OneRow(a.url)

\* C17 (amended): no step, a kill included, removes or changes a row or
\* removes a blob; the table never has two rows of one url; and after a
\* killed run, a run that goes through the feed ends with exactly one row
\* for every article whose text it could fetch and whose store calls did not
\* fail: it went past an article without a row only after a store error
\* other than "already exists".
C17_RerunStoresEveryFetchableIfStoreUp ==
    /\ [][IsPrefix(table, table') /\ blobs \subseteq blobs']_vars
    /\ [](\A j, k \in 1..Len(table) : table[j].url = table[k].url => j = k)
    /\ [](\A r \in Runs :
            RerunAfterKill(r) => \A a \in coll[r].unstored : a.error = "other")

\* The first run was killed between the upload and the insert of an
\* article: its blob was there without a row.  The second run got the path
\* back (409), inserted the row and counted it.
C17_Witness ==
    /\ RerunAfterKill(2)
    /\ coll[2].unstored = {}
    /\ \E url \in Urls :
          /\ coll[1].storage_path = Some(file_path(sha256(url)))
          /\ ~UrlExists(coll[2].before, url)
          /\ OneRow(url)
    /\ coll[2].ret # Some(0)

\* ------------------------------------------- overlapping collection
\* Two calls of run_data_collection, each with its own agent for the one
\* source, that run at the same time: their store calls interleave in any
\* order.
CollectStartOverlapping(r) ==
    /\ r \in {1, 2}
    /\ coll[r].pc = "idle"
    /\ \E name \in SourceNames :
         /\ \A q \in {1, 2} : coll[q].pc # "idle" => name = coll[q].source_name
         /\ BeginCollection(r, name)
    /\ UNCHANGED <<table, blobs, feed, ana, prices_df, sentiment_df, df_final, orch, asm>>

InitCollectOverlap ==
    /\ table = << >>
    /\ blobs = {}
    /\ feed \in FeedsOneTitle
    /\ coll = [r \in Runs |-> CollIdle]
    /\ ana = [r \in Runs |-> AnaIdle]
    /\ prices_df = << >>
    /\ sentiment_df = << >>
    /\ df_final = Null
    /\ orch = OrchIdle
    /\ asm = AsmIdle

NextCollectOverlap ==
    \E r \in {1, 2} :
        \/ CollectStartOverlapping(r)
        \/ CollectFetch(r)
        \/ CollectUpload(r)
        \/ CollectInsert(r)
        \/ CollectReturn(r)

SpecCollectOverlap == InitCollectOverlap /\ [][NextCollectOverlap]_vars

\* C18: however the store calls of two runs interleave, the table holds one
\* row per url, and when both have returned the values they returned add up
\* to the number of urls that have a row.
C18_OverlapOneRowPerUrl ==
    /\ \A j, k \in 1..Len(table) : table[j].url = table[k].url => j = k
    /\ (coll[1].pc = "done" /\ coll[2].pc = "done") =>
          Val(coll[1].ret) + Val(coll[2].ret)
              = Cardinality({table[k].url : k \in 1..Len(table)})

\* Both runs read the feed of two urls before either had inserted, and each
\* inserted one of the two.
C18_Witness ==
    /\ coll[1].pc = "done" /\ coll[2].pc = "done"
    /\ coll[1].links = feed /\ coll[2].links = feed
    /\ coll[1].before = << >> /\ coll[2].before = << >>
    /\ coll[1].ret = Some(1) /\ coll[2].ret = Some(1)
    /\ Cardinality({table[k].url : k \in 1..Len(table)}) = 2

\* ------------------------------------------- collection after analysis
\* The row of url k as collection and analysis can have left it: not scored,
\* or updated with a record the loop body accepts.
AnalysedRows(k) ==
    {t[1] : t \in UNION {update_article_with_analysis(1, d, <<StoredRow(k)>>) :
                            d \in {x \in ScorerDicts : "error" \notin DOMAIN x}}}

AnalysedTables ==
    UNION {{t \in [1..n -> UNION {AnalysedRows(k) : k \in 1..n}] :
               \A k \in 1..n : t[k] \in AnalysedRows(k)} : n \in 0..MaxAnalysedRows}

\* Collection is called on a store that earlier calls and the analysis have
\* filled: rows of the urls 1..n with their blobs.
InitCollectAnalysed ==
    /\ table \in AnalysedTables
    /\ blobs = {file_path(sha256(k)) : k \in 1..Len(table)}
    /\ feed \in Feeds
    /\ coll = [r \in Runs |-> CollIdle]
    /\ ana = [r \in Runs |-> AnaIdle]
    /\ prices_df = << >>
    /\ sentiment_df = << >>
    /\ df_final = Null
    /\ orch = OrchIdle
    /\ asm = AsmIdle

\* One call on that store (the calls before it made the rows it finds)
NextCollectAnalysed ==
    \/ CollectStart(1)
    \/ CollectFetch(1)
    \/ CollectUpload(1)
    \/ CollectInsert(1)
    \/ CollectReturn(1)

SpecCollectAnalysed == InitCollectAnalysed /\ [][NextCollectAnalysed]_vars

\* C22: a step of run_data_collection leaves every row the table has as it
\* is, field by field, and a row it adds has every analysis column null: a
\* run over a feed with known articles neither resets nor overwrites an
\* analysis.
C22_CollectionKeepsAnalysis ==
    [][/\ Len(table) <= Len(table')
       /\ \A k \in 1..Len(table) : table'[k] = table[k]
       /\ \A k \in (Len(table) + 1)..Len(table') :
              \A c \in AnalysisColumns : IsNull(table'[k][c])]_vars

\* The run found the scored row of url 1, inserted a new article first and
\* then offered the article of url 1 under another title: the upload gave
\* the path (409), the insert gave None, the row kept title and scores, and
\* the new row has no analysis.
C22_Witness ==
    /\ coll[1].pc = "fetch" /\ coll[1].i = 3
    /\ coll[1].links = feed /\ Len(feed) = 2
    /\ feed[1].url = 2 /\ feed[2].url = 1 /\ feed[2].title = "t2"
    /\ Len(coll[1].before) = 1
    /\ ~IsNull(coll[1].before[1].sentiment_score)
    /\ coll[1].storage_path = Some(file_path(sha256(1)))
    /\ coll[1].uuid = Null
    /\ coll[1].total_inserted = 1
    /\ Len(table) = 2
    /\ table[1] = coll[1].before[1]
    /\ \A c \in AnalysisColumns : IsNull(table[2][c])

\* ------------------------------------------------ orchestrator.py script
\* The script runs collection for the k-th configured source as call k of
\* run_data_collection; feeds_list is held by its length (0: RSS_FEEDS is
\* not set), and the feeds of the sources share their entries.

\* lines 129-140: the handlers are built, or the script exits
OrchInit ==
    /\ orch.pc = "start"
    /\ \E ok \in BOOLEAN :
         orch' = [orch EXCEPT !.pc = IF ok THEN "config" ELSE "exit"]
    /\ UNCHANGED <<table, blobs, feed, coll, ana, prices_df, sentiment_df, df_final, asm>>

\* lines 145-155
OrchConfig ==
    /\ orch.pc = "config"
    /\ orch' = [orch EXCEPT
                  !.pc = IF orch.feeds_list = 0 \/ orch.names_list = << >>
                           THEN "exit"
                         ELSE IF orch.feeds_list # Len(orch.names_list)
                           THEN "exit"
                         ELSE "loop",
                  !.total_articulos_insertados = 0]
    /\ UNCHANGED <<table, blobs, feed, coll, ana, prices_df, sentiment_df, df_final, asm>>

\* lines 157-162: the next pair of zip(feeds_list, names_list)
OrchCollect ==
    /\ orch.pc = "loop"
    /\ orch.k <= Len(orch.names_list)
    /\ BeginCollection(orch.k, orch.names_list[orch.k])
    /\ orch' = [orch EXCEPT !.pc = "collecting"]
    /\ UNCHANGED <<table, blobs, feed, ana, prices_df, sentiment_df, df_final, asm>>

\* An exception that leaves run_data_collection, which catches none: the
\* print of line 36 raises UnicodeEncodeError when the console cannot
\* encode the title.
CollectRaise(r) ==
    /\ coll[r].pc = "fetch"
    /\ coll[r].i <= Len(coll[r].links)
    /\ coll' = [coll EXCEPT ![r] = [@ EXCEPT !.pc = "raised"]]
    /\ UNCHANGED <<table, blobs, feed, ana, prices_df, sentiment_df, df_final, orch, asm>>

\* lines 163-164
OrchReturned ==
    /\ orch.pc = "collecting"
    /\ coll[orch.k].pc = "done"
    /\ orch' = [orch EXCEPT !.pc = "loop", !.k = @ + 1,
                            !.total_articulos_insertados = @ + Val(coll[orch.k].ret)]
    /\ coll' = [coll EXCEPT ![orch.k] = Ended(@)]
    /\ UNCHANGED <<table, blobs, feed, ana, prices_df, sentiment_df, df_final, asm>>

\* the except clause written with break
OrchExceptBreak ==
    /\ orch.pc = "collecting"
    /\ coll[orch.k].pc = "raised"
    /\ orch' = [orch EXCEPT !.pc = "completed"]
    /\ coll' = [coll EXCEPT ![orch.k] = Ended(@)]
    /\ UNCHANGED <<table, blobs, feed, ana, prices_df, sentiment_df, df_final, asm>>

\* lines 166-168: except Exception: print, continue
OrchExcept ==
    /\ orch.pc = "collecting"
    /\ coll[orch.k].pc = "raised"
    /\ orch' = [orch EXCEPT !.pc = "loop", !.k = @ + 1]
    /\ coll' = [coll EXCEPT ![orch.k] = Ended(@)]
    /\ UNCHANGED <<table, blobs, feed, ana, prices_df, sentiment_df, df_final, asm>>

\* lines 170-175: the loop is over; the call of run_sentiment_analysis of
\* line 173 is a comment
OrchFinish ==
    /\ orch.pc = "loop"
    /\ orch.k > Len(orch.names_list)
    /\ orch' = [orch EXCEPT !.pc = "completed"]
    /\ UNCHANGED <<table, blobs, feed, coll, ana, prices_df, sentiment_df, df_final, asm>>

NamesLists == UNION {[1..n -> SourceNames] : n \in 0..MaxRuns}

InitOrch ==
    /\ table = << >>
    /\ blobs = {}
    /\ feed \in FeedsOneTitle
    /\ coll = [r \in Runs |-> CollIdle]
    /\ ana = [r \in Runs |-> AnaIdle]
    /\ prices_df = << >>
    /\ sentiment_df = << >>
    /\ df_final = Null
    /\ orch \in {[OrchIdle EXCEPT !.pc = "start", !.feeds_list = n, !.names_list = names] :
                    n \in 0..MaxRuns, names \in NamesLists}
    /\ asm = AsmIdle

NextOrch ==
    \/ OrchInit
    \/ OrchConfig
    \/ OrchCollect
    \/ OrchReturned
    \/ OrchExcept
    \/ OrchFinish
    \/ \E r \in Runs :
          \/ CollectFetch(r)
          \/ CollectUpload(r)
          \/ CollectInsert(r)
          \/ CollectReturn(r)
          \/ CollectRaise(r)

SpecOrch == InitOrch /\ [][NextOrch]_vars

\* ---------------------------------------------------- orchestrator claims
RECURSIVE SumReturned(_)
\* The sum of the values the calls 1..k returned
SumReturned(k) ==
    IF k = 0 THEN 0
    ELSE SumReturned(k - 1) + (IF coll[k].pc = "done" THEN Val(coll[k].ret) ELSE 0)

C15_AnalysisRunsAfterCollection ==
    orch.pc = "completed" => \E r \in Runs : ana[r].pc # "idle"

\* ------------------------------------------- create_features_and_target
\* A DataFrame is the sequence of its rows in index order; the index value
\* is the field date, a NaN cell is the null.

\* pd.merge(prices_df, sentiment_df, left_index=True, right_index=True,
\* how='left'): every row of the left frame, in its order, with the columns
\* of the right row of the same date, NaN where there is none
merge_left(left, right) ==
    [i \in 1..Len(left) |->
        LET m == {s \in right : s.date = left[i].date}
        IN  [date |-> left[i].date, Open |-> left[i].Open,
             Close |-> left[i].Close, Volume |-> left[i].Volume,
             sentiment_sum |-> IF m = {} THEN Null
                                ELSE (CHOOSE s \in m : TRUE).sentiment_sum,
             news_count |-> IF m = {} THEN Null
                             ELSE (CHOOSE s \in m : TRUE).news_count]]

\* a column left as it is: the fill forgotten
fillna_none(cell, value) == cell

\* Series.fillna(value), cell by cell
fillna(cell, value) == IF IsNull(cell) THEN Some(value) ELSE cell

\* shift(1): the previous row's value
shift_forward(col, i) == IF i > 1 THEN col[i - 1] ELSE Null

\* Series.shift(-1) at position i: the next row's value, NaN in the last row
shift(col, i) == IF i < Len(col) THEN col[i + 1] ELSE Null

\* >= in place of >
gt_or_equal(x, y) == IF ~IsNull(x) /\ ~IsNull(y) /\ Val(x) >= Val(y) THEN 1 ELSE 0

\* (x > y).astype(int): a comparison with NaN is False
gt(x, y) == IF ~IsNull(x) /\ ~IsNull(y) /\ Val(x) > Val(y) THEN 1 ELSE 0

NaNColumns == {"Open", "Close", "Volume", "sentiment_sum", "news_count", "future_close"}

\* DataFrame.dropna(): the rows without a NaN cell, in order
dropna(df) == SelectSeq(df, LAMBDA row : \A c \in NaNColumns : ~IsNull(row[c]))

create_features_and_target(prices, sentiment) ==
    LET df_merged == merge_left(prices, sentiment)
        Close == [i \in 1..Len(df_merged) |-> df_merged[i].Close]
        with_target ==
            [i \in 1..Len(df_merged) |->
                LET future_close == shift(Close, i)
                IN  [date |-> df_merged[i].date, Open |-> df_merged[i].Open,
                     Close |-> df_merged[i].Close, Volume |-> df_merged[i].Volume,
                     sentiment_sum |-> fillna(df_merged[i].sentiment_sum, 0),
                     news_count |-> fillna(df_merged[i].news_count, 0),
                     future_close |-> future_close,
                     target |-> gt(future_close, Close[i])]]
    IN  dropna(with_target)

\* The price rows of one date: fully populated with a close of 9, 10 or 12,
\* or with one of the three cells NaN
PriceCells ==
    {[Open |-> Some(10), Close |-> Some(c), Volume |-> Some(100)] : c \in {9, 10, 12}}
    \cup {[Open |-> Some(10), Close |-> Null, Volume |-> Some(100)],
          [Open |-> Null, Close |-> Some(10), Volume |-> Some(100)],
          [Open |-> Some(10), Close |-> Some(10), Volume |-> Null]}

\* load_price_data never returns an empty frame; dates ascend: 1, 2, ...
PriceFrames ==
    UNION {{[i \in 1..n |-> [date |-> i, Open |-> f[i].Open, Close |-> f[i].Close,
                              Volume |-> f[i].Volume]] : f \in [1..n -> PriceCells]} :
           n \in 1..MaxDays}

\* load_sentiment_data: one aggregate per date that has news of the ticker
SentimentFrames ==
    {{[date |-> d, sentiment_sum |-> Some(-15), news_count |-> Some(2)] : d \in D} :
        D \in SUBSET (1..MaxDays)}

CreateFeatures ==
    /\ IsNull(df_final)
    /\ df_final' = Some(create_features_and_target(prices_df, sentiment_df))
    /\ UNCHANGED <<table, blobs, feed, coll, ana, prices_df, sentiment_df, orch, asm>>

InitFeatures ==
    /\ table = << >>
    /\ blobs = {}
    /\ feed = << >>
    /\ coll = [r \in Runs |-> CollIdle]
    /\ ana = [r \in Runs |-> AnaIdle]
    /\ prices_df \in PriceFrames
    /\ sentiment_df \in SentimentFrames
    /\ df_final = Null
    /\ orch = OrchIdle
    /\ asm = AsmIdle

NextFeatures == CreateFeatures

SpecFeatures == InitFeatures /\ [][NextFeatures]_vars

\* ------------------------------------------------------ features claims
Out == Val(df_final)

Populated(row) == \A c \in {"Open", "Close", "Volume"} : ~IsNull(row[c])

HasNews(d) == \E s \in sentiment_df : s.date = d

\* C8: a row of the result has target 1 exactly when the close of the next
\* input row is greater than its own close, 0 otherwise (also for equal
\* closes); closes 10, 12, 9 give targets 1, 0.
C8_TargetIsNextCloseGreater ==
    ~IsNull(df_final) =>
        /\ \A k \in 1..Len(Out) :
              LET i == Out[k].date
              IN  /\ i < Len(prices_df)
                  /\ Out[k].target \in {0, 1}
                  /\ Out[k].target = 1 <=>
                        /\ ~IsNull(prices_df[i + 1].Close)
                        /\ ~IsNull(prices_df[i].Close)
                        /\ Val(prices_df[i + 1].Close) > Val(prices_df[i].Close)
        /\ ( /\ Len(prices_df) = 3
             /\ \A i \in 1..3 : Populated(prices_df[i])
             /\ [i \in 1..3 |-> Val(prices_df[i].Close)] = <<10, 12, 9>> )
             => [k \in 1..Len(Out) |-> Out[k].target] = <<1, 0>>

C8_Witness ==
    /\ ~IsNull(df_final)
    /\ Len(prices_df) = 3
    /\ \A i \in 1..3 : Populated(prices_df[i])
    /\ [i \in 1..3 |-> Val(prices_df[i].Close)] = <<10, 12, 9>>
    /\ [k \in 1..Len(Out) |-> Out[k].target] = <<1, 0>>

\* C9 as stated: every date but the last that has no sentiment aggregate
\* has a row in the result, with sentiment_sum 0 and news_count 0.
C9_NoNewsRowKept ==
    ~IsNull(df_final) =>
        \A i \in 1..(Len(prices_df) - 1) :
            ~HasNews(prices_df[i].date) =>
                \E k \in 1..Len(Out) :
                    /\ Out[k].date = prices_df[i].date
                    /\ Out[k].sentiment_sum = Some(0)
                    /\ Out[k].news_count = Some(0)

\* C9 (amended): every date but the last that has no sentiment aggregate,
\* populated price fields and a next row with a close has a row in the
\* result, with sentiment_sum 0 and news_count 0.
C9_NoNewsRowKeptIfPriced ==
    ~IsNull(df_final) =>
        \A i \in 1..(Len(prices_df) - 1) :
            ( /\ ~HasNews(prices_df[i].date)
              /\ Populated(prices_df[i])
              /\ ~IsNull(prices_df[i + 1].Close) ) =>
                \E k \in 1..Len(Out) :
                    /\ Out[k].date = prices_df[i].date
                    /\ Out[k].sentiment_sum = Some(0)
                    /\ Out[k].news_count = Some(0)

\* Of two priced dates before the last, one has news and one has none: the
\* result holds the aggregate for the first and zeros for the second.
C9_Witness ==
    /\ ~IsNull(df_final)
    /\ Len(prices_df) = 3 /\ \A i \in 1..3 : Populated(prices_df[i])
    /\ HasNews(1) /\ ~HasNews(2)
    /\ Len(Out) = 2
    /\ Out[1].news_count = Some(2)
    /\ Out[2].sentiment_sum = Some(0) /\ Out[2].news_count = Some(0)

\* C10: for a price series of n >= 1 dates with populated price fields the
\* result has n-1 rows, those of every date but the last, in input order.
C10_DropsLastRowOnly ==
    (~IsNull(df_final) /\ \A i \in 1..Len(prices_df) : Populated(prices_df[i])) =>
        /\ Len(Out) = Len(prices_df) - 1
        /\ \A k \in 1..Len(Out) :
              /\ Out[k].date = prices_df[k].date
              /\ Out[k].Close = prices_df[k].Close

C10_Witness ==
    /\ ~IsNull(df_final)
    /\ Len(prices_df) = 3 /\ \A i \in 1..3 : Populated(prices_df[i])
    /\ sentiment_df = {}
    /\ [k \in 1..Len(Out) |-> Out[k].date] = <<1, 2>>

\* ------------------------------------------- prediction_model.py script
TICKER_TO_ANALYZE == "BBVA"

Tickers == {"BBVA", "SAN"}

\* pd.to_datetime of the stored text
to_datetime(text) == text.iso

\* .normalize(): the timestamp <<day, hour>> cut to its day
normalize(ts) == ts[1]

\* load_price_data: ValueError for the empty download; else the columns
\* Open, Close, Volume under the normalized index named date
load_price_data(data) ==
    IF data = << >>
      THEN [raised |-> "ValueError", value |-> << >>]
      ELSE [raised |-> "",
            value |-> [i \in 1..Len(data) |->
                         [date |-> normalize(data[i].date), Open |-> data[i].Open,
                          Close |-> data[i].Close, Volume |-> data[i].Volume]]]

StampLeq(a, b) == a[1] < b[1] \/ (a[1] = b[1] /\ a[2] <= b[2])

\* select ... where sentiment_score is not null order by published_at: the
\* scored rows (ties in any order), or [] when there is none or the query
\* raised
get_analyzed_sentiment_data(tbl) ==
    LET scored == {k \in 1..Len(tbl) : ~IsNull(tbl[k].sentiment_score)}
        orders == {q \in SeqsOfLen(scored, Cardinality(scored)) :
                     \A j \in 1..(Len(q) - 1) :
                        StampLeq(to_datetime(tbl[q[j]].published_at),
                                 to_datetime(tbl[q[j + 1]].published_at))}
    IN  {[j \in 1..Len(q) |-> tbl[q[j]]] : q \in orders} \cup {<< >>}

RECURSIVE SumSkipNa(_)
\* Series.sum(): the NaN cells are skipped
SumSkipNa(col) ==
    IF col = << >> THEN 0
    ELSE (IF IsNull(Head(col)) THEN 0 ELSE Val(Head(col))) + SumSkipNa(Tail(col))

\* x * y on two cells: NaN when either is
times(x, y) == IF IsNull(x) \/ IsNull(y) THEN Null ELSE Some(Val(x) * Val(y))

\* groupby('date').agg(sum of sentiment_weighted, count of url)
daily_sentiment(df_ticker) ==
    {LET group == SelectSeq(df_ticker, LAMBDA row : row.date = d)
     IN  [date |-> d,
          sentiment_sum |->
              Some(SumSkipNa([k \in 1..Len(group) |-> group[k].sentiment_weighted])),
          news_count |-> Some(Len(group))] :
        d \in {df_ticker[k].date : k \in 1..Len(df_ticker)}}

\* The frame of load_sentiment_data before the filter on the ticker
SentimentRows(all_sentiment_data) ==
    [k \in 1..Len(all_sentiment_data) |->
        LET row == all_sentiment_data[k]
        IN  [date |-> normalize(to_datetime(row.published_at)),
             stock_ticker |-> row.stock_ticker, url |-> row.url,
             sentiment_weighted |-> times(row.sentiment_score, row.relevance_score)]]

\* load_sentiment_data without the test of df_ticker.empty
load_sentiment_data_unchecked(all_sentiment_data, ticker) ==
    IF all_sentiment_data = << >>
      THEN [raised |-> "ValueError", value |-> {}]
      ELSE [raised |-> "",
            value |-> daily_sentiment(
                        SelectSeq(SentimentRows(all_sentiment_data),
                                  LAMBDA row : row.stock_ticker = Some(ticker)))]

load_sentiment_data(all_sentiment_data, ticker) ==
    IF all_sentiment_data = << >>
      THEN [raised |-> "ValueError", value |-> {}]
      ELSE LET df_ticker == SelectSeq(SentimentRows(all_sentiment_data),
                                      LAMBDA row : row.stock_ticker = Some(ticker))
           IN  IF df_ticker = << >>
                 THEN [raised |-> "ValueError", value |-> {}]
                 ELSE [raised |-> "", value |-> daily_sentiment(df_ticker)]

\* lines 128-138: the try block, one action per call; train_model is left out
AsmLoadPrices ==
    /\ asm.pc = "start"
    /\ LET o == load_price_data(asm.data)
       IN  IF o.raised # ""
             THEN /\ asm' = [asm EXCEPT !.pc = "except", !.error = o.raised]
                  /\ UNCHANGED prices_df
             ELSE /\ asm' = [asm EXCEPT !.pc = "prices"]
                  /\ prices_df' = o.value
    /\ UNCHANGED <<table, blobs, feed, coll, ana, sentiment_df, df_final, orch>>

AsmLoadSentiment ==
    /\ asm.pc = "prices"
    /\ \E all_sentiment_data \in get_analyzed_sentiment_data(table) :
         LET o == load_sentiment_data(all_sentiment_data, TICKER_TO_ANALYZE)
         IN  IF o.raised # ""
               THEN /\ asm' = [asm EXCEPT !.pc = "except", !.error = o.raised]
                    /\ UNCHANGED sentiment_df
               ELSE /\ asm' = [asm EXCEPT !.pc = "sentiment"]
                    /\ sentiment_df' = o.value
    /\ UNCHANGED <<table, blobs, feed, coll, ana, prices_df, df_final, orch>>

AsmCreateFeatures ==
    /\ asm.pc = "sentiment"
    /\ df_final' = Some(create_features_and_target(prices_df, sentiment_df))
    /\ asm' = [asm EXCEPT !.pc = "done"]
    /\ UNCHANGED <<table, blobs, feed, coll, ana, prices_df, sentiment_df, orch>>

\* yf.download: one row per trading day in date order, [] for no data
PriceData ==
    UNION {{[i \in 1..n |-> [date |-> <<i, 0>>, Open |-> Some(10), High |-> Some(12),
                              Close |-> Some(c[i]), Volume |-> Some(100)]] :
               c \in [1..n -> {10, 12}]} : n \in 0..MaxDays}

\* The row of url k as the earlier phases can have left it: not scored, or
\* scored for a ticker on day 1 or 2, with or without a relevance
ArticleRows(k) ==
    {StoredRow(k)} \cup
    {[StoredRow(k) EXCEPT !.published_at = isoformat(<<d, 9>>),
                          !.stock_ticker = Some(t),
                          !.sentiment_score = Some(5),
                          !.relevance_score = rel] :
        d \in 1..2, t \in Tickers, rel \in {Some(2), Null}}

AssemblyTables ==
    UNION {{t \in [1..n -> UNION {ArticleRows(k) : k \in 1..n}] :
               \A k \in 1..n : t[k] \in ArticleRows(k)} : n \in 0..MaxRows}

InitAssembly ==
    /\ table \in AssemblyTables
    /\ blobs = {}
    /\ feed = << >>
    /\ coll = [r \in Runs |-> CollIdle]
    /\ ana = [r \in Runs |-> AnaIdle]
    /\ prices_df = << >>
    /\ sentiment_df = {}
    /\ df_final = Null
    /\ orch = OrchIdle
    /\ asm \in {[AsmIdle EXCEPT !.pc = "start", !.data = d] : d \in PriceData}

NextAssembly ==
    \/ AsmLoadPrices
    \/ AsmLoadSentiment
    \/ AsmCreateFeatures

SpecAssembly == InitAssembly /\ [][NextAssembly]_vars

\* ------------------------------------------------------ assembly claims
Scored(tbl) == {k \in 1..Len(tbl) : ~IsNull(tbl[k].sentiment_score)}

NoDataFor(ticker) ==
    \/ asm.data = << >>
    \/ Scored(table) = {}
    \/ \A k \in Scored(table) : table[k].stock_ticker # Some(ticker)

\* C11: when the price source returns no rows, or the store has no scored
\* article, or no scored article is for the requested ticker, the script
\* never gets to a result table (df_final stays unset) and the only way it
\* leaves the try block is the ValueError; with no price rows the store is
\* not even read.
C11_NoDataRaisesValueError ==
    (asm.pc # "idle" /\ NoDataFor(TICKER_TO_ANALYZE)) =>
        /\ asm.pc \in {"start", "prices", "except"}
        /\ df_final = Null
        /\ asm.pc = "except" => asm.error = "ValueError"
        /\ asm.data = << >> => asm.pc # "prices"

\* Prices were loaded and the store has scored articles, all for another
\* ticker: ValueError.
C11_Witness ==
    /\ asm.pc = "except" /\ asm.error = "ValueError"
    /\ asm.data # << >>
    /\ Scored(table) # {}
    /\ \A k \in Scored(table) : table[k].stock_ticker = Some("SAN")

====
